---- MODULE Spec2Model ----
(***************************************************************************)
(* Model of audio-video-merger: the merge mode (directory discovery, pair  *)
(* resolution, the bounded scheduler with its permit bucket, error channel *)
(* and collector goroutine, and the merge task).                           *)
(*                                                                         *)
(* File names are sequences of one-character strings, so that              *)
(* filepath.Ext, strings.TrimSuffix and strings.HasPrefix are computed on  *)
(* the characters as the Go code computes them.                            *)
(***************************************************************************)
EXTENDS Integers, Sequences, FiniteSets, TLC

VARIABLES
    numCPU,          \* runtime.NumCPU()
    listing,         \* dirs: the result of os.ReadDir(cwd), sorted by filename
    files,           \* the regular files that exist in cwd
    fileNames,       \* map[string][]string of mergeAudVid
    nProc,           \* concurrency limit
    scheduled,       \* number of permits buffered in the bucket channel
    errs,            \* contents of the buffered error channel
    errsClosed,      \* close(errs) has executed
    wg,              \* sync.WaitGroup counter
    mainPc,          \* position of the main goroutine
    remaining,       \* keys the dispatch loop has still to range over
    cur,             \* the key of the current dispatch iteration
    pc,              \* position of each merge goroutine, by stem
    rmIdx,           \* index of the removal loop of each merge task
    taskErr,         \* the error a task is about to send
    ctx,             \* the context handed to each merge task
    colPc,           \* position of the collector goroutine
    colErr,          \* the error the collector has received and not yet logged
    logged,          \* errors printed by the collector
    sent,            \* errors that tasks have sent on errs
    nSent,           \* number of sends on errs each task has made
    nStarted,        \* number of goroutines started for each key
    ops,             \* the external operations each task has performed, in order
    panicked,        \* "none", or the runtime panic that killed the process
    cancelRequested, \* an external cancellation request has been made
    osArgs,          \* concat mode: os.Args[1:]
    cPc,             \* concat mode: position of main / concatVideos
    cErr,            \* concat mode: the error concatVideos returns
    listTxt,         \* concat mode: the manifest file list.txt
    created,         \* concat mode: os.Create has created the manifest
    toolCalls,       \* concat mode: the invocations of the external tool
    cLog,            \* concat mode: the lines the program has logged
    exitCode         \* concat mode: exit status of the process, -1 while it runs

vars == <<numCPU, listing, files, fileNames, nProc, scheduled, errs, errsClosed,
          wg, mainPc, remaining, cur, pc, rmIdx, taskErr, ctx, colPc, colErr,
          logged, sent, nSent, nStarted, ops, panicked, cancelRequested,
          osArgs, cPc, cErr, listTxt, created, toolCalls, cLog, exitCode>>

schedVars == <<nProc, scheduled, errs, errsClosed, wg>>
taskVars == <<pc, rmIdx, taskErr, ctx>>
colVars == <<colPc, colErr, logged>>
envVars == <<numCPU, listing, cancelRequested>>
histVars == <<sent, nSent, nStarted>>
concatVars == <<osArgs, cPc, cErr, listTxt, created, toolCalls, cLog, exitCode>>
mergeVars == <<numCPU, listing, files, fileNames, nProc, scheduled, errs, errsClosed,
               wg, mainPc, remaining, cur, pc, rmIdx, taskErr, ctx, colPc, colErr,
               logged, sent, nSent, nStarted, ops, panicked, cancelRequested>>
\* ops is a history variable too; only cmd.Run and os.Remove extend it.

(***************************************************************************)
(* Bounds of the model.                                                    *)
(***************************************************************************)
MaxCPU == 4
MaxEntries == 4

(***************************************************************************)
(* Characters and strings.                                                 *)
(***************************************************************************)
\* The characters used by the model's file names, in byte order.
Alphabet == <<" ", ".", "3", "4", "D", "E", "G", "M", "R", "[", "]",
              "a", "b", "c", "d", "e", "m", "p", "t", "w", "x">>

Code(c) == CHOOSE i \in 1..Len(Alphabet) : Alphabet[i] = c

\* Byte-wise string comparison, the order os.ReadDir sorts filenames in.
RECURSIVE StrLess(_, _)
StrLess(a, b) ==
    IF b = <<>> THEN FALSE
    ELSE IF a = <<>> THEN TRUE
    ELSE IF Head(a) = Head(b) THEN StrLess(Tail(a), Tail(b))
    ELSE Code(Head(a)) < Code(Head(b))

HasPrefix(s, p) == Len(s) >= Len(p) /\ SubSeq(s, 1, Len(p)) = p

HasSuffix(s, p) == Len(s) >= Len(p) /\ SubSeq(s, Len(s) - Len(p) + 1, Len(s)) = p

TrimSuffix(s, p) == IF HasSuffix(s, p) THEN SubSeq(s, 1, Len(s) - Len(p)) ELSE s

\* filepath.Ext: the suffix beginning at the final dot, empty if there is none.
Ext(path) ==
    LET dots == {i \in 1..Len(path) : path[i] = "."}
    IN  IF dots = {} THEN <<>>
        ELSE SubSeq(path, CHOOSE i \in dots : \A j \in dots : j <= i, Len(path))

\* slices.Contains
Contains(s, x) == \E i \in 1..Len(s) : s[i] = x

\* slices.Index, 0-based as in Go, -1 when absent
Index(s, x) ==
    IF Contains(s, x)
    THEN (CHOOSE i \in 1..Len(s) : s[i] = x /\ \A j \in 1..(i - 1) : s[j] # x) - 1
    ELSE -1

(***************************************************************************)
(* Program constants.                                                      *)
(***************************************************************************)
MergedFilePrefix == <<"[", "M", "E", "R", "G", "E", "D", "]">>

Mp3 == <<".", "m", "p", "3">>
Mp4 == <<".", "m", "p", "4">>
Webm == <<".", "w", "e", "b", "m">>
Txt == <<".", "t", "x", "t">>

mediaExts == <<Mp3, Mp4, Webm>>

filenameFromBasename(basename) == TrimSuffix(basename, Ext(basename))

\* dstFilename of mp3Mp4Merger
DstFilename(videoPath) == MergedFilePrefix \o <<" ">> \o videoPath

(***************************************************************************)
(* The directories the program is run in.                                  *)
(***************************************************************************)
Stems == {<<"a">>, <<"b">>}

File(name) == [name |-> name, isDir |-> FALSE]
Dir(name) == [name |-> name, isDir |-> TRUE]

\* Entries a directory may hold: the audio file and both videos of one stem,
\* the audio file and one video of the other, the output of an earlier run, a
\* file that is no media file, and a subdirectory.
Universe ==
    {File(<<"a">> \o e) : e \in {Mp3, Mp4, Webm}}
    \cup {File(<<"b">> \o e) : e \in {Mp3, Mp4}}
    \cup {File(DstFilename(<<"a">> \o Mp4)), File(<<"a">> \o Txt), Dir(<<"x">> \o Mp3)}

\* os.ReadDir returns the entries sorted by filename.
RECURSIVE SortByName(_)
SortByName(S) ==
    IF S = {} THEN <<>>
    ELSE LET first == CHOOSE d \in S : \A o \in S \ {d} : StrLess(d.name, o.name)
         IN  <<first>> \o SortByName(S \ {first})

Keys == {filenameFromBasename(d.name) : d \in Universe}

NoErr == [kind |-> "none", path |-> <<>>, cause |-> "", text |-> ""]

(***************************************************************************)
(* Discovery: main.go lines 80-98.                                         *)
(***************************************************************************)
\* Mutant: the entries marked as merged are not skipped.
DiscoverEntryNoPrefixCheck(m, dirent) ==
    LET fileExt == Ext(dirent.name)
        fileName == filenameFromBasename(dirent.name)
        exts == IF fileName \in DOMAIN m THEN m[fileName] ELSE <<>>
    IN  IF dirent.isDir THEN m
        ELSE IF ~Contains(mediaExts, fileExt)
        THEN m
        ELSE [k \in DOMAIN m \cup {fileName} |->
                 IF k = fileName THEN Append(exts, fileExt) ELSE m[k]]

\* One iteration of the loop over dirs.
DiscoverEntry(m, dirent) ==
    LET fileExt == Ext(dirent.name)
        fileName == filenameFromBasename(dirent.name)
        exts == IF fileName \in DOMAIN m THEN m[fileName] ELSE <<>>
    IN  IF dirent.isDir THEN m
        ELSE IF ~Contains(mediaExts, fileExt) \/ HasPrefix(dirent.name, MergedFilePrefix)
        THEN m
        ELSE [k \in DOMAIN m \cup {fileName} |->
                 IF k = fileName THEN Append(exts, fileExt) ELSE m[k]]

RECURSIVE DiscoverFrom(_, _)
DiscoverFrom(m, dirs) ==
    IF dirs = <<>> THEN m
    ELSE DiscoverFrom(DiscoverEntry(m, Head(dirs)), Tail(dirs))

Discover(dirs) == DiscoverFrom(<<>>, dirs)

(***************************************************************************)
(* Pair resolver: main.go lines 100-108.                                   *)
(***************************************************************************)
\* Mutant: the legacy rule, a group of exactly two extensions.
QualifiesExactlyTwo(exts) == Contains(exts, Mp3) /\ Len(exts) = 2

\* The group is kept by the loop.
Qualifies(exts) == ~(~Contains(exts, Mp3) \/ Len(exts) < 2)

\* Mutant: the index of .mp3 itself is taken.
VideoIndexOfAudio(exts) == Index(exts, Mp3)

\* 0-based index of the video extension: 1-slices.Index(exts, ".mp3")
VideoIndex(exts) == 1 - Index(exts, Mp3)

\* exts[VideoIndex(exts)] panics with an index out of range.
IndexPanics(exts) == VideoIndex(exts) < 0 \/ VideoIndex(exts) >= Len(exts)

ResolveGroup(exts) == <<exts[VideoIndex(exts) + 1], Mp3>>

\* Mutant: the groups that do not qualify are not deleted from the map.
ResolveKeepsAll(m) ==
    [k \in DOMAIN m |-> IF Qualifies(m[k]) THEN ResolveGroup(m[k]) ELSE m[k]]

Resolve(m) ==
    [k \in {x \in DOMAIN m : Qualifies(m[x])} |-> ResolveGroup(m[k])]

ResolvePanics(m) == \E k \in DOMAIN m : Qualifies(m[k]) /\ IndexPanics(m[k])

\* runtime.NumCPU() / 2
HalfCores(n) == n \div 2

\* The manifest file does not exist.
NoFile == [exists |-> FALSE, content |-> <<>>]

\* The build runs merge mode: concatVideos is not called.
ConcatOff ==
    /\ osArgs = <<>>
    /\ cPc = "off"
    /\ cErr = "none"
    /\ listTxt = NoFile
    /\ created = FALSE
    /\ toolCalls = <<>>
    /\ cLog = <<>>
    /\ exitCode = -1

(***************************************************************************)
(* Initial state: the program starts in a directory that os.ReadDir has    *)
(* listed.                                                                 *)
(***************************************************************************)
Init ==
    /\ numCPU \in 1..MaxCPU
    /\ \E S \in SUBSET Universe :
          /\ Cardinality(S) <= MaxEntries
          /\ listing = SortByName(S)
          /\ files = {d.name : d \in {e \in S : ~e.isDir}}
    /\ fileNames = <<>>
    /\ nProc = 0
    /\ scheduled = 0
    /\ errs = <<>>
    /\ errsClosed = FALSE
    /\ wg = 0
    /\ mainPc = "discover"
    /\ remaining = {}
    /\ cur = <<>>
    /\ pc = [k \in Keys |-> "idle"]
    /\ rmIdx = [k \in Keys |-> 0]
    /\ taskErr = [k \in Keys |-> NoErr]
    /\ ctx = [k \in Keys |-> "none"]
    /\ colPc = "idle"
    /\ colErr = NoErr
    /\ logged = {}
    /\ sent = {}
    /\ nSent = [k \in Keys |-> 0]
    /\ nStarted = [k \in Keys |-> 0]
    /\ ops = [k \in Keys |-> <<>>]
    /\ panicked = "none"
    /\ cancelRequested = FALSE
    /\ ConcatOff

\* The process is running: main has not returned and nothing has panicked.
Alive == mainPc # "exited" /\ panicked = "none"

(***************************************************************************)
(* Main goroutine.                                                         *)
(***************************************************************************)
\* main.go lines 80-98
MainDiscover ==
    /\ Alive /\ mainPc = "discover"
    /\ UNCHANGED ops
    /\ UNCHANGED concatVars
    /\ fileNames' = Discover(listing)
    /\ mainPc' = "resolve"
    /\ UNCHANGED <<files, remaining, cur, panicked>>
    /\ UNCHANGED histVars
    /\ UNCHANGED <<schedVars, taskVars, colVars, envVars>>

\* main.go lines 100-108
MainResolve ==
    /\ Alive /\ mainPc = "resolve"
    /\ UNCHANGED ops
    /\ UNCHANGED concatVars
    /\ IF ResolvePanics(fileNames)
       THEN /\ panicked' = "index out of range"
            /\ UNCHANGED <<fileNames, mainPc>>
       ELSE /\ fileNames' = Resolve(fileNames)
            /\ mainPc' = "setup"
            /\ UNCHANGED panicked
    /\ UNCHANGED <<files, remaining, cur>>
    /\ UNCHANGED histVars
    /\ UNCHANGED <<schedVars, taskVars, colVars, envVars>>

\* Mutant: the bucket is made and never filled.
newBucketEmpty(capacity) == 0

\* newBucket (main.go lines 62-68): a channel of the given capacity, filled.
newBucket(capacity) == capacity

\* Mutant: the tasks are not added to the WaitGroup.
WgAddNone(m) == 0

\* wg.Add(len(fileNames)), main.go line 115
WgAdd(m) == Cardinality(DOMAIN m)

\* main.go lines 110-120: the limit, the bucket, the error channel, wg.Add and
\* the start of the collector goroutine.
MainSetup ==
    /\ Alive /\ mainPc = "setup"
    /\ UNCHANGED ops
    /\ UNCHANGED concatVars
    /\ nProc' = HalfCores(numCPU)
    /\ scheduled' = newBucket(nProc')
    /\ errs' = <<>>
    /\ wg' = WgAdd(fileNames)
    /\ colPc' = "recv"
    /\ remaining' = DOMAIN fileNames
    /\ mainPc' = "acquire"
    /\ UNCHANGED <<files, fileNames, errsClosed, cur, colErr, logged, panicked>>
    /\ UNCHANGED histVars
    /\ UNCHANGED <<taskVars, envVars>>

\* Mutant: the dispatch loop does not block on an empty bucket.
PermitAvailableNoBlock == TRUE

\* A receive from the bucket channel can proceed.
PermitAvailable == scheduled > 0

\* main.go lines 121-122: the loop takes the next key of the map (in no fixed
\* order) and receives a permit from the bucket.
MainAcquire ==
    /\ Alive /\ mainPc = "acquire"
    /\ UNCHANGED ops
    /\ UNCHANGED concatVars
    /\ PermitAvailable
    /\ \E k \in remaining :
          /\ cur' = k
          /\ remaining' = remaining \ {k}
    /\ scheduled' = scheduled - 1
    /\ mainPc' = "launch"
    /\ UNCHANGED <<files, fileNames, nProc, errs, errsClosed, wg, panicked>>
    /\ UNCHANGED histVars
    /\ UNCHANGED <<taskVars, colVars, envVars>>

\* main.go lines 123-130: the goroutine of the current key is started with a
\* background context; the iteration ends and its variables with it.
MainLaunch ==
    /\ Alive /\ mainPc = "launch"
    /\ UNCHANGED ops
    /\ UNCHANGED concatVars
    /\ pc' = [pc EXCEPT ![cur] = "switch"]
    /\ ctx' = [ctx EXCEPT ![cur] = "Background"]
    /\ nStarted' = [nStarted EXCEPT ![cur] = nStarted[cur] + 1]
    /\ cur' = <<>>
    /\ mainPc' = "acquire"
    /\ UNCHANGED <<files, fileNames, remaining, rmIdx, taskErr, panicked>>
    /\ UNCHANGED <<sent, nSent>>
    /\ UNCHANGED <<schedVars, colVars, envVars>>

\* Mutant: the dispatch loop also stops once a task has reported an error.
LoopExhaustedOrFailed == remaining = {} \/ sent # {}

\* The range over fileNames has no key left; nothing else ends the loop.
LoopExhausted == remaining = {}

\* main.go line 131: the range over fileNames is exhausted.
MainLoopEnd ==
    /\ Alive /\ mainPc = "acquire"
    /\ UNCHANGED ops
    /\ UNCHANGED concatVars
    /\ LoopExhausted
    /\ mainPc' = "wait"
    /\ UNCHANGED <<files, fileNames, remaining, cur, panicked>>
    /\ UNCHANGED histVars
    /\ UNCHANGED <<schedVars, taskVars, colVars, envVars>>

\* Mutant: the completion join does not wait.
WaitReturnsEarly == TRUE

\* wg.Wait() returns.
WaitReturns == wg = 0

\* main.go line 132
MainWait ==
    /\ Alive /\ mainPc = "wait"
    /\ UNCHANGED ops
    /\ UNCHANGED concatVars
    /\ WaitReturns
    /\ mainPc' = "close"
    /\ UNCHANGED <<files, fileNames, remaining, cur, panicked>>
    /\ UNCHANGED histVars
    /\ UNCHANGED <<schedVars, taskVars, colVars, envVars>>

\* main.go line 133
MainClose ==
    /\ Alive /\ mainPc = "close"
    /\ UNCHANGED ops
    /\ UNCHANGED concatVars
    /\ errsClosed' = TRUE
    /\ mainPc' = "returned"
    /\ UNCHANGED <<files, fileNames, nProc, scheduled, errs, wg, remaining, cur,
                   panicked>>
    /\ UNCHANGED histVars
    /\ UNCHANGED <<taskVars, colVars, envVars>>

\* main returns and the process ends, whatever the other goroutines are doing
\* (part_000 line 135).
MainExit ==
    /\ Alive /\ mainPc = "returned"
    /\ UNCHANGED ops
    /\ UNCHANGED concatVars
    /\ mainPc' = "exited"
    /\ UNCHANGED <<files, fileNames, remaining, cur, panicked>>
    /\ UNCHANGED histVars
    /\ UNCHANGED <<schedVars, taskVars, colVars, envVars>>

(***************************************************************************)
(* Merge task: the goroutine of main.go lines 124-130 running mp3Mp4Merger *)
(* (lines 25-56) and then its deferred function.                           *)
(***************************************************************************)
\* The arguments of the call at main.go line 129.
VideoPath(k) == k \o fileNames[k][1]
Mp3Path(k) == k \o fileNames[k][2]

\* main.go line 34
ErrUnrecognized(path) ==
    [kind |-> "unrecognized file extension", path |-> path, cause |-> "", text |-> ""]

\* Mutant: the error of a failed command leaves out the captured stderr.
ErrCommandNoText(cause, text) ==
    [kind |-> "command error", path |-> <<>>, cause |-> cause, text |-> ""]

\* main.go lines 42-43: the error of cmd.Run() wrapped with the text captured
\* from the standard error of the process.
ErrCommand(cause, text) ==
    [kind |-> "command error", path |-> <<>>, cause |-> cause, text |-> text]

\* main.go line 51
ErrRemove(path) ==
    [kind |-> "failed to remove file", path |-> path, cause |-> "remove", text |-> ""]

\* What a transcoder that ran writes on its standard error.
Diagnostics == "Invalid data found when processing input"

\* The standard error of the process, captured in the strings.Builder: a
\* process that could not be started has written nothing.
CapturedStderr(outcome) == IF outcome = "nolaunch" THEN "" ELSE Diagnostics

\* The error cmd.Run() returns.
RunError(outcome) ==
    CASE outcome = "failed" -> "exit status 1"
      [] outcome = "nolaunch" -> "executable file not found"
      [] outcome = "killed" -> "signal: killed"
      [] OTHER -> ""

\* Mutant: the switch has no default case.
RecognizedAny(ext) == TRUE

\* The extensions the switch of mp3Mp4Merger has a command for.
Recognized(ext) == ext = Mp4 \/ ext = Webm

\* ctx.Done() is closed. context.Background() is never cancelled.
CtxDone(c) == c # "Background" /\ cancelRequested

\* main.go lines 26-36
TaskSwitch(k) ==
    /\ Alive /\ pc[k] = "switch"
    /\ UNCHANGED ops
    /\ UNCHANGED concatVars
    /\ IF Recognized(Ext(VideoPath(k)))
       THEN /\ pc' = [pc EXCEPT ![k] = "run"]
            /\ UNCHANGED taskErr
       ELSE /\ taskErr' = [taskErr EXCEPT ![k] = ErrUnrecognized(VideoPath(k))]
            /\ pc' = [pc EXCEPT ![k] = "send"]
    /\ UNCHANGED <<files, fileNames, mainPc, remaining, cur, rmIdx, ctx, panicked>>
    /\ UNCHANGED histVars
    /\ UNCHANGED <<schedVars, colVars, envVars>>

\* How cmd.Run() of a task can end: the external process succeeds, exits
\* non-zero or cannot be started, or exec.CommandContext kills it because its
\* context is done.
RunOutcomes(k) ==
    {"ok", "failed", "nolaunch"} \cup (IF CtxDone(ctx[k]) THEN {"killed"} ELSE {})

TaskRunEnds(k, outcome) ==
    /\ Alive /\ pc[k] = "run"
    /\ UNCHANGED concatVars
    /\ outcome \in RunOutcomes(k)
    /\ IF outcome = "ok"
       THEN /\ files' = files \cup {DstFilename(VideoPath(k))}
            /\ pc' = [pc EXCEPT ![k] = "remove"]
            /\ rmIdx' = [rmIdx EXCEPT ![k] = 1]
            /\ UNCHANGED taskErr
       ELSE /\ taskErr' = [taskErr EXCEPT ![k] =
                            ErrCommand(RunError(outcome), CapturedStderr(outcome))]
            /\ pc' = [pc EXCEPT ![k] = "send"]
            /\ UNCHANGED <<files, rmIdx>>
    /\ ops' = [ops EXCEPT ![k] = Append(@, [op |-> "run", path |-> VideoPath(k),
                                             ok |-> outcome = "ok",
                                             text |-> CapturedStderr(outcome)])]
    /\ UNCHANGED <<fileNames, mainPc, remaining, cur, ctx, panicked>>
    /\ UNCHANGED histVars
    /\ UNCHANGED <<schedVars, colVars, envVars>>

\* main.go lines 37-46
TaskRun(k) ==
    \E outcome \in {"ok", "failed", "nolaunch", "killed"} : TaskRunEnds(k, outcome)

\* Mutant: the removal loop goes over []string{mp3Path, videoPath}.
RemovePathAudioFirst(k) == IF rmIdx[k] = 1 THEN Mp3Path(k) ELSE VideoPath(k)

\* The path the removal loop is at: []string{videoPath, mp3Path}.
RemovePath(k) == IF rmIdx[k] = 1 THEN VideoPath(k) ELSE Mp3Path(k)

\* main.go lines 48-55: one iteration. os.Remove may fail on a file that
\* exists (permissions) and fails on one that does not.
TaskRemove(k) ==
    /\ Alive /\ pc[k] = "remove"
    /\ UNCHANGED concatVars
    /\ \E ok \in BOOLEAN :
          /\ ok => RemovePath(k) \in files
          /\ IF ok
             THEN /\ files' = files \ {RemovePath(k)}
                  /\ IF rmIdx[k] = 1
                     THEN /\ rmIdx' = [rmIdx EXCEPT ![k] = 2]
                          /\ UNCHANGED pc
                     ELSE /\ rmIdx' = [rmIdx EXCEPT ![k] = 0]
                          /\ pc' = [pc EXCEPT ![k] = "wgDone"]
                  /\ UNCHANGED taskErr
             ELSE /\ taskErr' = [taskErr EXCEPT ![k] = ErrRemove(RemovePath(k))]
                  /\ pc' = [pc EXCEPT ![k] = "send"]
                  /\ UNCHANGED <<files, rmIdx>>
          /\ ops' = [ops EXCEPT ![k] = Append(@, [op |-> "remove",
                                                   path |-> RemovePath(k),
                                                   ok |-> ok, text |-> ""])]
    /\ UNCHANGED <<fileNames, mainPc, remaining, cur, ctx, panicked>>
    /\ UNCHANGED histVars
    /\ UNCHANGED <<schedVars, colVars, envVars>>

\* A send on the buffered channel errs can proceed.
ErrsHasRoom == Len(errs) < nProc

\* Mutant: the return after the send in the removal loop is missing, so the
\* loop goes on with the next path.
AfterSendNoReturn(k) ==
    IF pc[k] = "send" /\ rmIdx[k] = 1
    THEN [pc |-> "remove", rmIdx |-> 2]
    ELSE [pc |-> "wgDone", rmIdx |-> rmIdx[k]]

\* Where a task goes on after its send: each of the three sends is followed
\* by return, so the deferred function is next.
AfterSend(k) == [pc |-> "wgDone", rmIdx |-> rmIdx[k]]

\* main.go lines 34-35, 43-44, 51-52: errs <- err, then return. A send on a
\* closed channel panics.
TaskSend(k) ==
    /\ Alive /\ pc[k] = "send"
    /\ UNCHANGED ops
    /\ UNCHANGED concatVars
    /\ IF errsClosed
       THEN /\ panicked' = "send on closed channel"
            /\ UNCHANGED <<errs, sent, nSent, pc, rmIdx>>
       ELSE /\ ErrsHasRoom
            /\ errs' = Append(errs, taskErr[k])
            /\ sent' = sent \cup {[task |-> k, err |-> taskErr[k]]}
            /\ nSent' = [nSent EXCEPT ![k] = nSent[k] + 1]
            /\ pc' = [pc EXCEPT ![k] = AfterSend(k).pc]
            /\ rmIdx' = [rmIdx EXCEPT ![k] = AfterSend(k).rmIdx]
            /\ UNCHANGED panicked
    /\ UNCHANGED <<files, fileNames, nProc, scheduled, errsClosed, wg, mainPc,
                   remaining, cur, taskErr, ctx, nStarted>>
    /\ UNCHANGED <<colVars, envVars>>

\* Mutant: a task that reported an error does not return its permit.
AfterWgDoneLeak(k) == IF nSent[k] > 0 THEN "done" ELSE "release"

\* What follows wg.Done() in the deferred function: the permit goes back to
\* the bucket, whether the task failed or not.
AfterWgDone(k) == "release"

\* main.go line 126, first statement of the deferred function
TaskWgDone(k) ==
    /\ Alive /\ pc[k] = "wgDone"
    /\ UNCHANGED ops
    /\ UNCHANGED concatVars
    /\ wg' = wg - 1
    /\ pc' = [pc EXCEPT ![k] = AfterWgDone(k)]
    /\ UNCHANGED <<files, fileNames, nProc, scheduled, errs, errsClosed, mainPc,
                   remaining, cur, rmIdx, taskErr, ctx, panicked>>
    /\ UNCHANGED histVars
    /\ UNCHANGED <<colVars, envVars>>

\* main.go line 127, second statement of the deferred function
TaskRelease(k) ==
    /\ Alive /\ pc[k] = "release"
    /\ UNCHANGED ops
    /\ UNCHANGED concatVars
    /\ scheduled < nProc
    /\ scheduled' = scheduled + 1
    /\ pc' = [pc EXCEPT ![k] = "done"]
    /\ UNCHANGED <<files, fileNames, nProc, errs, errsClosed, wg, mainPc,
                   remaining, cur, rmIdx, taskErr, ctx, panicked>>
    /\ UNCHANGED histVars
    /\ UNCHANGED <<colVars, envVars>>

(***************************************************************************)
(* Collector goroutine: main.go lines 116-120.                             *)
(***************************************************************************)
\* for err := range errs: an error is received
ColRecv ==
    /\ Alive /\ colPc = "recv"
    /\ UNCHANGED ops
    /\ UNCHANGED concatVars
    /\ errs # <<>>
    /\ colErr' = Head(errs)
    /\ errs' = Tail(errs)
    /\ colPc' = "log"
    /\ UNCHANGED <<files, fileNames, nProc, scheduled, errsClosed, wg, mainPc,
                   remaining, cur, logged, panicked>>
    /\ UNCHANGED histVars
    /\ UNCHANGED <<taskVars, envVars>>

\* log.Print(err)
ColLog ==
    /\ Alive /\ colPc = "log"
    /\ UNCHANGED ops
    /\ UNCHANGED concatVars
    /\ logged' = logged \cup {colErr}
    /\ colErr' = NoErr
    /\ colPc' = "recv"
    /\ UNCHANGED <<files, fileNames, mainPc, remaining, cur, panicked>>
    /\ UNCHANGED histVars
    /\ UNCHANGED <<schedVars, taskVars, envVars>>

\* the range ends: errs is closed and drained
ColEnd ==
    /\ Alive /\ colPc = "recv"
    /\ UNCHANGED ops
    /\ UNCHANGED concatVars
    /\ errs = <<>> /\ errsClosed
    /\ colPc' = "done"
    /\ UNCHANGED <<files, fileNames, mainPc, remaining, cur, colErr, logged, panicked>>
    /\ UNCHANGED histVars
    /\ UNCHANGED <<schedVars, taskVars, envVars>>

(***************************************************************************)
(* Environment.                                                            *)
(***************************************************************************)
\* Somebody asks the run to be cancelled.
Cancel ==
    /\ Alive /\ ~cancelRequested
    /\ UNCHANGED ops
    /\ UNCHANGED concatVars
    /\ cancelRequested' = TRUE
    /\ UNCHANGED <<numCPU, listing, files, fileNames, mainPc, remaining, cur, panicked>>
    /\ UNCHANGED histVars
    /\ UNCHANGED <<schedVars, taskVars, colVars>>

Next ==
    \/ MainDiscover
    \/ MainResolve
    \/ MainSetup
    \/ MainAcquire
    \/ MainLaunch
    \/ MainLoopEnd
    \/ MainWait
    \/ MainClose
    \/ MainExit
    \/ \E k \in Keys : TaskSwitch(k)
    \/ \E k \in Keys : TaskRun(k)
    \/ \E k \in Keys : TaskRemove(k)
    \/ \E k \in Keys : TaskSend(k)
    \/ \E k \in Keys : TaskWgDone(k)
    \/ \E k \in Keys : TaskRelease(k)
    \/ ColRecv
    \/ ColLog
    \/ ColEnd
    \/ Cancel

Spec == Init /\ [][Next]_vars

(***************************************************************************)
(* Discovery and the resolver alone (main.go lines 75-108), on every       *)
(* listing of Init.                                                        *)
(***************************************************************************)
ResolveNext ==
    \/ MainDiscover
    \/ MainResolve

SpecResolve == Init /\ [][ResolveNext]_vars

(***************************************************************************)
(* mp3Mp4Merger called with any video path: the dispatch of main.go lines  *)
(* 110-133 started on a map of pairs whose video extension is any of       *)
(* MergerVideoExts, the files of the pairs being in the directory.         *)
(***************************************************************************)
MergerVideoExts == {Mp4, Webm, Txt}

MergerInit ==
    /\ numCPU \in 1..MaxCPU
    /\ \E S \in SUBSET Stems :
          \E fn \in [S -> {<<v, Mp3>> : v \in MergerVideoExts}] :
              /\ fileNames = fn
              /\ files = UNION {{k \o fn[k][1], k \o fn[k][2]} : k \in S}
              /\ listing = SortByName({File(k \o fn[k][i]) : k \in S, i \in 1..2})
              /\ wg = WgAdd(fn)
              /\ remaining = S
    /\ nProc = HalfCores(numCPU)
    /\ scheduled = newBucket(nProc)
    /\ errs = <<>>
    /\ errsClosed = FALSE
    /\ mainPc = "acquire"
    /\ cur = <<>>
    /\ pc = [k \in Keys |-> "idle"]
    /\ rmIdx = [k \in Keys |-> 0]
    /\ taskErr = [k \in Keys |-> NoErr]
    /\ ctx = [k \in Keys |-> "none"]
    /\ colPc = "recv"
    /\ colErr = NoErr
    /\ logged = {}
    /\ sent = {}
    /\ nSent = [k \in Keys |-> 0]
    /\ nStarted = [k \in Keys |-> 0]
    /\ ops = [k \in Keys |-> <<>>]
    /\ panicked = "none"
    /\ cancelRequested = FALSE
    /\ ConcatOff

MergerNext ==
    \/ MainAcquire
    \/ MainLaunch
    \/ MainLoopEnd
    \/ MainWait
    \/ MainClose
    \/ MainExit
    \/ \E k \in Keys : TaskSwitch(k)
    \/ \E k \in Keys : TaskRun(k)
    \/ \E k \in Keys : TaskRemove(k)
    \/ \E k \in Keys : TaskSend(k)
    \/ \E k \in Keys : TaskWgDone(k)
    \/ \E k \in Keys : TaskRelease(k)
    \/ ColRecv
    \/ ColLog
    \/ ColEnd
    \/ Cancel

SpecMerger == MergerInit /\ [][MergerNext]_vars

(***************************************************************************)
(* Fair scheduling: the Go runtime lets every goroutine that can take a    *)
(* step take one, and every external process that was started ends. No     *)
(* fairness is asked of the cancellation request.                          *)
(***************************************************************************)
MainStep ==
    MainAcquire \/ MainLaunch \/ MainLoopEnd \/ MainWait \/ MainClose \/ MainExit

TaskStep(k) ==
    \/ TaskSwitch(k) \/ TaskRun(k) \/ TaskRemove(k)
    \/ TaskSend(k) \/ TaskWgDone(k) \/ TaskRelease(k)

ColStep == ColRecv \/ ColLog \/ ColEnd

Fairness ==
    /\ WF_vars(MainStep)
    /\ \A k \in Keys : WF_vars(TaskStep(k))
    /\ WF_vars(ColStep)

FairSpec == MergerInit /\ [][MergerNext]_vars /\ Fairness

(***************************************************************************)
(* Concat mode: main of main.go (lines 236-241) calls concatVideos (lines  *)
(* 193-234) on os.Args[1:]; mergeAudVid is not called.                     *)
(***************************************************************************)
MaxArgs == 3

LF == "\n"

\* The paths given on the command line; one of them has a line feed in it.
ConcatPaths == {<<"a">>, <<"b">>, <<"a", LF, "b">>}

ArgLists == UNION {[1..n -> ConcatPaths] : n \in 0..MaxArgs}

\* fmt.Sprintf("file 'file:%s'", v)
Directive(v) ==
    <<"f", "i", "l", "e", " ", "'", "f", "i", "l", "e", ":">> \o v \o <<"'">>

\* strings.Join(elems, "\n")
RECURSIVE Join(_)
Join(elems) ==
    IF elems = <<>> THEN <<>>
    ELSE IF Len(elems) = 1 THEN elems[1]
    ELSE elems[1] \o <<LF>> \o Join(Tail(elems))

\* main.go lines 184-191
concatInputFiles(paths) == Join([i \in 1..Len(paths) |-> Directive(paths[i])])

\* The lines of a text, as the external tool reads the manifest.
RECURSIVE Lines(_)
Lines(s) ==
    IF \A i \in 1..Len(s) : s[i] # LF THEN <<s>>
    ELSE LET n == CHOOSE i \in 1..Len(s) :
                      s[i] = LF /\ \A j \in 1..(i - 1) : s[j] # LF
         IN  <<SubSeq(s, 1, n - 1)>> \o Lines(SubSeq(s, n + 1, Len(s)))

\* fmt.Sprintf("concat - %s", files[0])
ConcatOutput(paths) == <<"c", "o", "n", "c", "a", "t", " ", "-", " ">> \o paths[1]

\* Mutant: only an empty argument list is refused.
UsageFatalOnlyEmpty(paths) == Len(paths) = 0

\* main.go lines 195-200: the cases of the switch that end in log.Fatal.
UsageFatal(paths) == Len(paths) \in {0, 1}

UsageMessage(paths) ==
    IF Len(paths) = 0 THEN "no video files to concat provided"
    ELSE "provide more than one video to concat"

ConcatInit ==
    /\ numCPU = 1
    /\ listing = <<>>
    /\ files = {}
    /\ fileNames = <<>>
    /\ nProc = 0
    /\ scheduled = 0
    /\ errs = <<>>
    /\ errsClosed = FALSE
    /\ wg = 0
    /\ mainPc = "off"
    /\ remaining = {}
    /\ cur = <<>>
    /\ pc = [k \in Keys |-> "idle"]
    /\ rmIdx = [k \in Keys |-> 0]
    /\ taskErr = [k \in Keys |-> NoErr]
    /\ ctx = [k \in Keys |-> "none"]
    /\ colPc = "idle"
    /\ colErr = NoErr
    /\ logged = {}
    /\ sent = {}
    /\ nSent = [k \in Keys |-> 0]
    /\ nStarted = [k \in Keys |-> 0]
    /\ ops = [k \in Keys |-> <<>>]
    /\ panicked = "none"
    /\ cancelRequested = FALSE
    /\ osArgs \in ArgLists
    /\ cPc = "args"
    /\ cErr = "none"
    /\ listTxt = NoFile
    /\ created = FALSE
    /\ toolCalls = <<>>
    /\ cLog = <<>>
    /\ exitCode = -1

\* main.go lines 194-200: log.Fatal prints and calls os.Exit(1).
ConcatArgs ==
    /\ cPc = "args"
    /\ IF UsageFatal(osArgs)
       THEN /\ cLog' = Append(cLog, UsageMessage(osArgs))
            /\ exitCode' = 1
            /\ cPc' = "exited"
       ELSE /\ cPc' = "create"
            /\ UNCHANGED <<cLog, exitCode>>
    /\ UNCHANGED <<osArgs, cErr, listTxt, created, toolCalls>>
    /\ UNCHANGED mergeVars

\* main.go lines 202-216: os.Create("list.txt"); on success the cleanup is
\* deferred, on failure the error is returned.
ConcatCreate ==
    /\ cPc = "create"
    /\ \E ok \in BOOLEAN :
          IF ok
          THEN /\ listTxt' = [exists |-> TRUE, content |-> <<>>]
               /\ created' = TRUE
               /\ cPc' = "write"
               /\ UNCHANGED cErr
          ELSE /\ cErr' = "create"
               /\ cPc' = "returned"
               /\ UNCHANGED <<listTxt, created>>
    /\ UNCHANGED <<osArgs, toolCalls, cLog, exitCode>>
    /\ UNCHANGED mergeVars

\* main.go lines 218-221: file.WriteString(concatInputFiles(files)); a write
\* that fails has written some prefix, and the function returns through its
\* deferred cleanup.
ConcatWrite ==
    /\ cPc = "write"
    /\ LET text == concatInputFiles(osArgs)
       IN  \E n \in 0..Len(text) :
              /\ listTxt' = [listTxt EXCEPT !.content = SubSeq(text, 1, n)]
              /\ IF n = Len(text)
                 THEN /\ cPc' = "run"
                      /\ UNCHANGED cErr
                 ELSE /\ cErr' = "write"
                      /\ cPc' = "close"
    /\ UNCHANGED <<osArgs, created, toolCalls, cLog, exitCode>>
    /\ UNCHANGED mergeVars

\* main.go lines 223-233: the external tool runs once on the manifest.
ConcatRun ==
    /\ cPc = "run"
    /\ toolCalls' = Append(toolCalls, [manifest |-> listTxt.content,
                                       output |-> ConcatOutput(osArgs)])
    /\ \E ok \in BOOLEAN :
          cErr' = IF ok THEN cErr ELSE "failed to run ffmpeg concat command"
    /\ cPc' = "close"
    /\ UNCHANGED <<osArgs, listTxt, created, cLog, exitCode>>
    /\ UNCHANGED mergeVars

\* main.go lines 206-211, the deferred function: file.Close(); when it fails
\* the function logs and returns.
ConcatClose ==
    /\ cPc = "close"
    /\ \E ok \in BOOLEAN :
          IF ok
          THEN /\ cPc' = "remove"
               /\ UNCHANGED cLog
          ELSE /\ cLog' = Append(cLog, "failed to close file")
               /\ cPc' = "returned"
    /\ UNCHANGED <<osArgs, cErr, listTxt, created, toolCalls, exitCode>>
    /\ UNCHANGED mergeVars

\* main.go lines 212-215, the deferred function: os.Remove(file.Name()).
ConcatRemove ==
    /\ cPc = "remove"
    /\ \E ok \in BOOLEAN :
          IF ok
          THEN /\ listTxt' = NoFile
               /\ UNCHANGED cLog
          ELSE /\ cLog' = Append(cLog, "failed to clean up")
               /\ UNCHANGED listTxt
    /\ cPc' = "returned"
    /\ UNCHANGED <<osArgs, cErr, created, toolCalls, exitCode>>
    /\ UNCHANGED mergeVars

\* main.go lines 236-241: log.Fatal(err) on an error, else main returns.
ConcatMainExit ==
    /\ cPc = "returned"
    /\ IF cErr = "none"
       THEN /\ exitCode' = 0
            /\ UNCHANGED cLog
       ELSE /\ exitCode' = 1
            /\ cLog' = Append(cLog, cErr)
    /\ cPc' = "exited"
    /\ UNCHANGED <<osArgs, cErr, listTxt, created, toolCalls>>
    /\ UNCHANGED mergeVars

ConcatNext ==
    \/ ConcatArgs
    \/ ConcatCreate
    \/ ConcatWrite
    \/ ConcatRun
    \/ ConcatClose
    \/ ConcatRemove
    \/ ConcatMainExit

SpecConcat == ConcatInit /\ [][ConcatNext]_vars

(***************************************************************************)
(* Properties.                                                             *)
(***************************************************************************)
\* The main goroutine has built the bucket and the error channel.
SetUp == mainPc \notin {"discover", "resolve", "setup"}

\* The resolver loop has run to its end.
Resolved == mainPc \notin {"discover", "resolve"}

\* The main goroutine is past the completion join.
Joined == mainPc \in {"close", "returned", "exited"}

\* The resolved pairs, once the resolver has run.
Pairs == IF SetUp \/ mainPc = "setup" THEN DOMAIN fileNames ELSE {}

\* mp3Mp4Merger of the task is running.
InMerge(k) == pc[k] \in {"switch", "run", "remove", "send"}

\* The task has been started and has not yet returned its permit.
Unfinished(k) == InMerge(k) \/ pc[k] \in {"wgDone", "release"}

\* Permits received from the bucket and not yet sent back: those of the
\* unfinished tasks and the one of the goroutine main is about to start.
PermitsOut ==
    Cardinality({k \in Keys : Unfinished(k)}) + (IF mainPc = "launch" THEN 1 ELSE 0)

\* The extension group of a stem: the media extensions e for which the listing
\* holds the regular file stem+e, the files marked as merged left out.
ExtGroup(k) ==
    {e \in {Mp3, Mp4, Webm} :
        LET name == k \o e
        IN  /\ \E i \in 1..Len(listing) : listing[i].name = name /\ ~listing[i].isDir
            /\ ~HasPrefix(name, MergedFilePrefix)}

ListedNames == {listing[i].name : i \in 1..Len(listing)}

\* C1: in every reachable state the number of permits taken from the bucket
\* and not yet returned, which is the number of merge tasks started and not
\* yet finished, is at most the concurrency limit.
C1_PermitsBounded ==
    SetUp => /\ PermitsOut <= nProc
             /\ Cardinality({k \in Keys : Unfinished(k)}) <= nProc

\* C1 witness: the limit is reached while a pair is still to be dispatched.
C1_Witness ==
    /\ mainPc = "acquire" /\ remaining # {}
    /\ nProc >= 1 /\ PermitsOut = nProc /\ scheduled = 0

\* C2: once main is past wg.Wait() (closing errs, returned or exited), every
\* dispatched task has finished running its merge function.
C2_ReturnsAfterAllTasks ==
    Joined => \A k \in Pairs : pc[k] # "idle" /\ ~InMerge(k)

\* C2 witness: main has returned after two tasks, one of which failed.
C2_Witness ==
    /\ mainPc = "returned" /\ Cardinality(Pairs) = 2
    /\ \E k \in Pairs : nSent[k] = 1
    /\ \E k \in Pairs : nSent[k] = 0

\* C3: when the process exits, the errors logged by the collector are the
\* errors the tasks sent.
C3_AllErrorsLogged ==
    mainPc = "exited" => logged = {s.err : s \in sent}

\* C4: after close(errs) no task sends or can still send on errs, and no send
\* on the closed channel ever happens.
C4_NoSendAfterClose ==
    /\ errsClosed => \A k \in Keys : ~InMerge(k)
    /\ panicked # "send on closed channel"

\* C4 witness: errs is closed after a task has sent an error on it.
C4_Witness == errsClosed /\ sent # {} /\ panicked = "none"

\* C5: every task returns exactly one permit, on success and on each failure
\* path: the permits in the bucket and the permits out always add up to the
\* limit, a finished task holds none, and once all tasks have run to
\* completion and main has returned the bucket holds all its permits.
C5_NoPermitLeak ==
    SetUp =>
        /\ scheduled + PermitsOut = nProc
        /\ ((mainPc \in {"returned", "exited"} /\ \A k \in Pairs : pc[k] = "done")
               => scheduled = nProc)

\* C5 witness: main has returned, two tasks have run to completion, one after
\* a command failure and one after a removal failure, and the bucket is full
\* again.
C5_Witness ==
    /\ mainPc = "returned" /\ Cardinality(Pairs) = 2
    /\ \A k \in Pairs : pc[k] = "done"
    /\ \E k \in Pairs : nSent[k] = 1 /\ taskErr[k].kind = "command error"
    /\ \E k \in Pairs : nSent[k] = 1 /\ taskErr[k].kind = "failed to remove file"
    /\ nProc >= 1 /\ scheduled = nProc

\* C6: the concurrency limit is half the detected core count and at least 1.
C6_LimitAtLeastOne ==
    SetUp => nProc = numCPU \div 2 /\ nProc >= 1

\* C7: failures are isolated: a goroutine is started at most once per key and
\* only for resolved pairs; once the dispatch loop has ended, exactly one has
\* been started for each resolved pair whatever has failed; when the loop
\* waits for a permit (limit at least 1), an unfinished task is there to
\* return one, so no failed task has left the loop stuck; nothing panics, and
\* the process exits only after all tasks have joined.
C7_FailuresIsolated ==
    /\ \A k \in Keys : nStarted[k] <= 1 /\ (nStarted[k] = 1 => k \in Pairs)
    /\ mainPc \in {"wait", "close", "returned", "exited"}
          => \A k \in Pairs : nStarted[k] = 1
    /\ (mainPc = "acquire" /\ remaining # {} /\ scheduled = 0 /\ nProc >= 1)
          => \E k \in Keys : Unfinished(k)
    /\ panicked = "none"
    /\ mainPc = "exited" => \A k \in Pairs : pc[k] \in {"release", "done"}

\* C7 witness: the process has exited after two tasks that both failed, the
\* first having failed before the second was started.
C7_Witness ==
    /\ mainPc = "exited" /\ Cardinality(Pairs) = 2 /\ nProc = 1
    /\ \A k \in Pairs : nSent[k] = 1 /\ nStarted[k] = 1

\* C8: a task sends at most one error, and once it has sent one it is out of
\* its merge function.
C8_AtMostOneError ==
    \A k \in Keys :
        /\ nSent[k] <= 1
        /\ Cardinality({s \in sent : s.task = k}) <= 1
        /\ nSent[k] = 1 => ~InMerge(k)

\* C8 witness: a task has returned after failing to remove its video file; the
\* audio file is still there.
C8_Witness ==
    \E k \in Pairs :
        /\ pc[k] = "done" /\ nSent[k] = 1
        /\ taskErr[k] = ErrRemove(VideoPath(k))
        /\ Mp3Path(k) \in files

\* C9: after a cancellation request, the context of every external process in
\* flight is done, so that the process is killed.
C9_CancellationReachesProcesses ==
    \A k \in Keys : (cancelRequested /\ pc[k] = "run") => CtxDone(ctx[k])

\* C10: a stem whose extension group lacks .mp3 or holds fewer than two
\* extensions is no resolved pair and no task is started for it (a stem that
\* is a pair or has a task has neither defect); the listing a.mp3, a.mp4,
\* b.mp4 yields the one pair a.
C10_IncompleteGroupNeverPaired ==
    /\ \A k \in Keys :
          (k \in Pairs \/ pc[k] # "idle" \/ nStarted[k] # 0)
             => LET exts == ExtGroup(k)
                IN  ~(Mp3 \notin exts \/ Cardinality(exts) < 2)
    /\ (SetUp /\ Len(listing) = 3 /\ ListedNames = {<<"a">> \o Mp3, <<"a">> \o Mp4, <<"b">> \o Mp4})
          => Pairs = {<<"a">>}

\* C10 witness: the run of the listing a.mp3, a.mp4, b.mp4 has ended with one
\* task, for a.
C10_Witness ==
    /\ ListedNames = {<<"a">> \o Mp3, <<"a">> \o Mp4, <<"b">> \o Mp4}
    /\ mainPc = "exited"
    /\ nStarted = [k \in Keys |-> IF k = <<"a">> THEN 1 ELSE 0]

ListedEntries == {listing[i] : i \in 1..Len(listing)}

\* C11: for a stem whose extension group is exactly .mp3 and one video
\* extension, the resolver leaves exactly the pair (video extension, .mp3):
\* the video path is stem+video extension and the audio path stem+.mp3.
C11_PairAssigned ==
    Resolved =>
        \A k \in Keys :
            LET exts == ExtGroup(k)
            IN  \A v \in {Mp4, Webm} :
                    exts = {Mp3, v}
                       => /\ k \in Pairs
                          /\ fileNames[k] = <<v, Mp3>>
                          /\ VideoPath(k) = k \o v
                          /\ Mp3Path(k) = k \o Mp3

\* C11 witness: the resolver has run on two stems, one with a .webm and one
\* with an .mp4 video, and has left the pair of each.
C11_Witness ==
    /\ Resolved
    /\ ExtGroup(<<"a">>) = {Mp3, Webm} /\ ExtGroup(<<"b">>) = {Mp3, Mp4}
    /\ fileNames[<<"a">>] = <<Webm, Mp3>>
    /\ fileNames[<<"b">>] = <<Mp4, Mp3>>

\* C12: every stem whose extension group holds .mp3 and at least one other
\* extension is a resolved pair, whatever the size of the group; its video
\* extension is a non-audio extension of the group, and the resolver does not
\* fail.
C12_GeneralizedResolver ==
    /\ panicked # "index out of range"
    /\ Resolved =>
          \A k \in Keys :
              LET exts == ExtGroup(k)
              IN  (Mp3 \in exts /\ Cardinality(exts) >= 2)
                     => /\ k \in Pairs
                        /\ fileNames[k][1] \in exts \ {Mp3}
                        /\ fileNames[k][2] = Mp3

\* C12 witness: a stem with all three extensions has been resolved.
C12_Witness ==
    /\ Resolved
    /\ ExtGroup(<<"a">>) = {Mp3, Mp4, Webm}
    /\ <<"a">> \in Pairs /\ fileNames[<<"a">>][1] = Mp4

\* C13: every extension discovery has put into a group comes from a listed
\* regular file whose name does not start with the merged-file marker and
\* whose extension is a media extension; no key with the marker is ever a
\* pair or has a task; and the output file of a merge task that ran is skipped
\* by discovery.
C13_DiscoverySkips ==
    /\ mainPc = "resolve" =>
          \A k \in DOMAIN fileNames : \A i \in 1..Len(fileNames[k]) :
              /\ File(k \o fileNames[k][i]) \in ListedEntries
              /\ ~HasPrefix(k \o fileNames[k][i], MergedFilePrefix)
              /\ fileNames[k][i] \in {Mp3, Mp4, Webm}
    /\ \A k \in Keys :
          /\ HasPrefix(k, MergedFilePrefix) => k \notin Pairs /\ pc[k] = "idle"
          /\ \A i \in 1..Len(ops[k]) :
                (ops[k][i].op = "run" /\ ops[k][i].ok)
                   => Discover(<<File(DstFilename(ops[k][i].path))>>) = <<>>

\* C13 witness: discovery has run on a listing with a merged file, a
\* subdirectory, a text file and one media file, and has kept the media file.
C13_Witness ==
    /\ mainPc = "resolve"
    /\ {File(DstFilename(<<"a">> \o Mp4)), File(<<"a">> \o Txt), Dir(<<"x">> \o Mp3),
        File(<<"a">> \o Mp3)} = ListedEntries
    /\ DOMAIN fileNames = {<<"a">>} /\ fileNames[<<"a">>] = <<Mp3>>

\* C14: a task whose video path has an extension the switch does not know
\* starts no external process and attempts no deletion, both of its files stay,
\* and it sends exactly one error, the one naming the path, before it returns.
C14_UnrecognizedExtension ==
    \A k \in Pairs :
        Ext(VideoPath(k)) \notin {Mp4, Webm}
           => /\ ops[k] = <<>>
              /\ pc[k] \notin {"run", "remove"}
              /\ {VideoPath(k), Mp3Path(k)} \subseteq files
              /\ nSent[k] <= 1
              /\ \A s \in sent : s.task = k => s.err = ErrUnrecognized(VideoPath(k))
              /\ pc[k] \in {"wgDone", "release", "done"} => nSent[k] = 1

\* C14 witness: the task of a.txt has returned after its one error, next to a
\* task of b.mp4 that has merged.
C14_Witness ==
    /\ <<"a">> \in Pairs /\ VideoPath(<<"a">>) = <<"a">> \o Txt
    /\ pc[<<"a">>] = "done" /\ nSent[<<"a">>] = 1
    /\ <<"b">> \in Pairs /\ pc[<<"b">>] = "done" /\ nSent[<<"b">>] = 0

\* C15: a task attempts to delete its video file before its audio file: an
\* attempt on the audio file directly follows a successful deletion of the
\* video file, and when the deletion of the video file fails the task makes no
\* further attempt and the audio file still exists.
C15_VideoDeletedFirst ==
    \A k \in Keys : \A i \in 1..Len(ops[k]) :
        ops[k][i].op = "remove"
           => /\ ops[k][i].path = VideoPath(k)
                    => \A j \in 1..(i - 1) : ops[k][j].op # "remove"
              /\ ops[k][i].path # VideoPath(k)
                    => /\ ops[k][i].path = Mp3Path(k)
                       /\ ops[k][i - 1] = [op |-> "remove", path |-> VideoPath(k),
                                           ok |-> TRUE, text |-> ""]
              /\ (ops[k][i].path = VideoPath(k) /\ ~ops[k][i].ok)
                    => /\ i = Len(ops[k])
                       /\ pc[k] # "remove"
                       /\ Mp3Path(k) \in files

\* C15 witness: a task has merged, failed to delete its video file and
\* returned; its audio file is still in the directory.
C15_Witness ==
    \E k \in Pairs :
        /\ Len(ops[k]) = 2
        /\ ops[k][2] = [op |-> "remove", path |-> VideoPath(k), ok |-> FALSE, text |-> ""]
        /\ pc[k] = "done"
        /\ Mp3Path(k) \in files

\* C20: a task whose external process fails or cannot be started sends exactly
\* one error, which carries the text captured from the standard error of the
\* process, and deletes neither of its source files; a task attempts a
\* deletion only after its process has succeeded.
C20_FailedProcessDeletesNothing ==
    \A k \in Keys : \A i \in 1..Len(ops[k]) :
        /\ (ops[k][i].op = "run" /\ ~ops[k][i].ok)
              => /\ Len(ops[k]) = 1
                 /\ pc[k] \notin {"run", "remove"}
                 /\ {VideoPath(k), Mp3Path(k)} \subseteq files
                 /\ taskErr[k].kind = "command error"
                 /\ taskErr[k].text = ops[k][i].text
                 /\ nSent[k] <= 1
                 /\ pc[k] \in {"wgDone", "release", "done"}
                       => /\ nSent[k] = 1
                          /\ [task |-> k, err |-> taskErr[k]] \in sent
        /\ ops[k][i].op = "remove" => (ops[k][1].op = "run" /\ ops[k][1].ok)

\* C20 witness: the process of a task has exited non-zero after writing its
\* diagnostics, the task has sent its error and returned, and both source
\* files are in the directory.
C20_Witness ==
    \E k \in Pairs :
        /\ ops[k] = <<[op |-> "run", path |-> VideoPath(k), ok |-> FALSE,
                       text |-> Diagnostics]>>
        /\ pc[k] = "done" /\ nSent[k] = 1
        /\ taskErr[k] = ErrCommand("exit status 1", Diagnostics)
        /\ {VideoPath(k), Mp3Path(k)} \subseteq files

\* C16: once concatVideos has returned after creating the manifest, the
\* manifest file no longer exists, whichever step failed and whatever the
\* outcome of closing the file (a removal that was attempted and itself failed
\* is set aside).
C16_ManifestRemoved ==
    (/\ cPc \in {"returned", "exited"}
     /\ created
     /\ \A i \in 1..Len(cLog) : cLog[i] # "failed to clean up")
        => ~listTxt.exists

\* C17: with fewer than two path arguments the program ends at once with the
\* usage message and exit status 1; the manifest is never created and the
\* external tool never invoked.
C17_UsageErrorIsFatal ==
    Len(osArgs) < 2
       => /\ cPc \in {"off", "args", "exited"}
          /\ ~created /\ ~listTxt.exists
          /\ toolCalls = <<>>
          /\ cPc = "exited" => (exitCode = 1 /\ cLog = <<UsageMessage(osArgs)>>)

\* C17 witness: the program has exited on a single path argument.
C17_Witness ==
    /\ Len(osArgs) = 1 /\ cPc = "exited" /\ exitCode = 1
    /\ cLog = <<"provide more than one video to concat">>

\* C18: the manifest written for k >= 2 paths has exactly k lines, and its
\* i-th line is the file directive of the i-th path.
C18_OneDirectivePerPath ==
    (cPc = "run" /\ Len(osArgs) >= 2)
       => /\ Len(Lines(listTxt.content)) = Len(osArgs)
          /\ \A i \in 1..Len(osArgs) :
                Lines(listTxt.content)[i] = Directive(osArgs[i])

\* C19: under fair scheduling, with every external process ending, a
\* scheduler with at least one permit that is about to dispatch its N tasks
\* eventually has started every task once, joined them, closed the error
\* channel and returned.
C19_SchedulerTerminates ==
    (mainPc = "acquire" /\ nProc >= 1)
       ~> (/\ mainPc = "returned"
           /\ errsClosed
           /\ \A k \in DOMAIN fileNames :
                 nStarted[k] = 1 /\ pc[k] \in {"release", "done"})

\* C19 witness: with one permit and two tasks, both of which sent an error,
\* the scheduler has returned.
C19_Witness ==
    /\ mainPc = "returned" /\ errsClosed /\ nProc = 1
    /\ Cardinality(DOMAIN fileNames) = 2
    /\ \A k \in DOMAIN fileNames : nSent[k] = 1 /\ nStarted[k] = 1

====
